---- MODULE Spec2Model ----
(***************************************************************************)
(* Model of parse_tides.py (TidesApp-server).                              *)
(*                                                                         *)
(* Two specifications share the module:                                    *)
(*   Spec      main()'s port x month loop: handle_port_month, the grouper  *)
(*             build_tides_json_for_port_month / _for_port_day,            *)
(*             build_tide_json and write_json.                             *)
(*   SpecCoef  fetch_coefficients' row loop: handle_coefficients_pdf_row   *)
(*             and register_coefficients.                                  *)
(* Python indices are kept zero-based (i, index); TLA+ sequences are       *)
(* one-based, so values[k] of the source is values[k + 1] here.            *)
(* Strings the code parses (hora, row[0], coefficient tokens) are tuples   *)
(* of one-character strings; strings it only compares or uses as keys      *)
(* (fecha, tipo, altura) are plain strings.                                *)
(***************************************************************************)
EXTENDS Integers, Sequences, FiniteSets, TLC

VARIABLES
    pc,                \* position of main(): "handle", "loop", "write", "done", "failed"
    portIdx,           \* index into Ports of the port of the current iteration
    month,             \* month of the current iteration (1..NumMonths)
    values,            \* data["mareas"]["datos"]["marea"] of the current port-month
    i,                 \* cursor of build_tides_json_for_port_month
    tides_json,        \* the document under construction
    calls,             \* (index, increment) of each completed build_tides_json_for_port_day call
    persisted,         \* paths written by write_json: <<port code, month>>
    err,               \* exception that ended the run, "none" while there is none
    coefficients_map,  \* {"coefficients": {...}}
    rows,              \* the table extracted from the PDF page
    r,                 \* number of rows already handed to handle_coefficients_pdf_row
    first_semester,    \* the semester flag of fetch_coefficients
    registered,        \* register_coefficients calls made for the last row handled
    pcC                \* position of fetch_coefficients: "rows", "done"

vars == <<pc, portIdx, month, values, i, tides_json, calls, persisted, err,
          coefficients_map, rows, r, first_semester, registered, pcC>>

grouperVars == <<pc, portIdx, month, values, i, tides_json, calls, persisted, err>>
coefVars == <<rows, r, first_semester, registered, pcC>>

----------------------------------------------------------------------------
(* Bounds of the model *)

MaxLen == 8
MaxRows == 3
MaxPairs == 4

(* Program constants *)

NumMonths == 12
CurrentYear == 2024
RepairWindow == 3

----------------------------------------------------------------------------
(* String helpers *)

Digits == {"0", "1", "2", "3", "4", "5", "6", "7", "8", "9"}

DigitVal(c) ==
    CASE c = "0" -> 0 [] c = "1" -> 1 [] c = "2" -> 2 [] c = "3" -> 3
      [] c = "4" -> 4 [] c = "5" -> 5 [] c = "6" -> 6 [] c = "7" -> 7
      [] c = "8" -> 8 [] c = "9" -> 9

RECURSIVE IntOf(_)
IntOf(s) ==
    IF s = <<>> THEN 0
    ELSE IntOf(SubSeq(s, 1, Len(s) - 1)) * 10 + DigitVal(s[Len(s)])

\* s.split(sep)[0]: the characters before the first sep
RECURSIVE SplitFirst(_, _)
SplitFirst(s, sep) ==
    IF s = <<>> \/ Head(s) = sep THEN <<>>
    ELSE <<Head(s)>> \o SplitFirst(Tail(s), sep)

Pad2(n) == IF n < 10 THEN "0" \o ToString(n) ELSE ToString(n)

----------------------------------------------------------------------------
(* Inputs of the grouper *)

Ports == << [id |-> "1", code |-> "p1", puerto |-> "Gijon"],
            [id |-> "2", code |-> "p2", puerto |-> "Vigo"] >>

D1 == "2024-05-01"
D2 == "2024-05-02"
Dates == {D1, D2}
DayNo(fecha) == IF fecha = D1 THEN 1 ELSE 2

H0200 == <<"0", "2", ":", "0", "0">>
H0810 == <<"0", "8", ":", "1", "0">>
H0900 == <<"0", "9", ":", "0", "0">>
H1159 == <<"1", "1", ":", "5", "9">>
H1200 == <<"1", "2", ":", "0", "0">>
H1422 == <<"1", "4", ":", "2", "2">>
H2005 == <<"2", "0", ":", "0", "5">>

Event(f, h, a, t) == [fecha |-> f, hora |-> h, altura |-> a, tipo |-> t]

\* the events of the generic feeds: the last morning and the first evening minute
Morning(d) == Event(d, H1159, "1.2", "pleamar")
Evening(d) == Event(d, H1200, "0.3", "bajamar")

\* the events of one calendar day in ascending time: a mornings, then b evenings
DayRun(d, a, b) == [k \in 1..(a + b) |-> IF k <= a THEN Morning(d) ELSE Evening(d)]

ScenarioValues ==
    << Event(D1, H0810, "1.2", "pleamar"),
       Event(D1, H1422, "0.3", "bajamar"),
       Event(D1, H2005, "1.1", "pleamar"),
       Event(D2, H0200, "1.3", "pleamar"),
       Event(D2, H0900, "0.2", "bajamar") >>

\* the feed is ascending in time: the calendar days never decrease
DayOrdered(s) == \A k \in 1..(Len(s) - 1) : DayNo(s[k].fecha) <= DayNo(s[k + 1].fecha)

\* the feeds handed to the grouper: ascending in time, of at most MaxLen events,
\* any number of events on a day (so that short and long days occur)
Counts == {c \in (0..MaxLen) \X (0..MaxLen) \X (0..MaxLen) \X (0..MaxLen) :
              c[1] + c[2] + c[3] + c[4] <= MaxLen}

Inputs ==
    {DayRun(D1, c[1], c[2]) \o DayRun(D2, c[3], c[4]) : c \in Counts}
    \cup {ScenarioValues}

Pairs == (D1 :> <<70, 68>>) @@ (D2 :> <<65, 63>>)

ScenarioTable == [coefficients |-> Pairs]

Tables ==
    { [coefficients |-> [d \in S |-> Pairs[d]]] : S \in {Dates, {D1}} }
    \cup { [coefficients |-> (D1 :> <<70, 68>>) @@ (D2 :> <<65>>)] }

----------------------------------------------------------------------------
(* The grouper *)

CoefIndexSwapped(hora) == IF IntOf(SplitFirst(hora, ":")) < 12 THEN 1 ELSE 0

\* the index build_tide_json reads in the coefficient pair (zero-based)
CoefIndex(hora) == IF IntOf(SplitFirst(hora, ":")) < 12 THEN 0 ELSE 1

build_tide_json_first_only(v, coefficients) ==
    [ meters |-> v.altura,
      time |-> v.hora,
      coefficient |-> coefficients[1],
      high_tide |-> (v.tipo = "pleamar") ]

build_tide_json(v, coefficients) ==
    [ meters |-> v.altura,
      time |-> v.hora,
      coefficient |-> coefficients[CoefIndex(v.hora) + 1],
      high_tide |-> (v.tipo = "pleamar") ]

LookupWithDefault(cm, fecha) ==
    IF fecha \in DOMAIN cm.coefficients
    THEN [found |-> TRUE, coefficients |-> cm.coefficients[fecha]]
    ELSE [found |-> TRUE, coefficients |-> <<0, 0>>]

\* coefficients_map["coefficients"][fecha]: found is FALSE where Python raises KeyError
Lookup(cm, fecha) ==
    IF fecha \in DOMAIN cm.coefficients
    THEN [found |-> TRUE, coefficients |-> cm.coefficients[fecha]]
    ELSE [found |-> FALSE, coefficients |-> <<>>]

\* the exception raised while building the tide of event v, "none" if there is none
TideError(v, cm) ==
    IF ~Lookup(cm, v.fecha).found THEN "KeyError"
    ELSE IF CoefIndex(v.hora) + 1 > Len(Lookup(cm, v.fecha).coefficients) THEN "IndexError"
    ELSE "none"

Tide(v, cm) == build_tide_json(v, Lookup(cm, v.fecha).coefficients)

FourthTakenWheneverPresent(index, vs) == index + 3 < Len(vs)

FourthTakenByThird(index, vs) ==
    /\ index + 3 < Len(vs)
    /\ vs[index + 4].fecha = vs[index + 3].fecha

\* lines 116-117: the event at index + 3 is taken as fourth_tide
FourthTaken(index, vs) ==
    /\ index + 3 < Len(vs)
    /\ vs[index + 4].fecha = vs[index + 1].fecha

Increment(index, vs) == IF FourthTaken(index, vs) THEN 4 ELSE 3

\* offsets of the events whose tide the call builds, in the order it builds them
Built(index, vs) == 0..(Increment(index, vs) - 1)

Failing(index, vs, cm) == {k \in Built(index, vs) : TideError(vs[index + k + 1], cm) # "none"}

Min(S) == CHOOSE x \in S : \A y \in S : x <= y

DayError(index, vs, cm) ==
    IF Failing(index, vs, cm) = {} THEN "none"
    ELSE TideError(vs[index + Min(Failing(index, vs, cm)) + 1], cm)

tides_day(index, vs, cm) ==
    LET three == [ first_tide |-> Tide(vs[index + 1], cm),
                   second_tide |-> Tide(vs[index + 2], cm),
                   third_tide |-> Tide(vs[index + 3], cm) ]
    IN  IF FourthTaken(index, vs)
        THEN three @@ ("fourth_tide" :> Tide(vs[index + 4], cm))
        ELSE three

\* line 120: tides_json[key] = day
Put(doc, key, day) == [k \in (DOMAIN doc) \cup {key} |-> IF k = key THEN day ELSE doc[k]]

LoopCondFour(idx, vs) == idx + 3 < Len(vs)

\* line 105
LoopCond(idx, vs) == idx + 2 < Len(vs)

----------------------------------------------------------------------------
(* Actions of Spec *)

\* lines 88-96 up to the first test of the loop
HandlePortMonth ==
    /\ pc = "handle"
    /\ \E data \in Inputs : values' = data
    /\ tides_json' = [ port_id |-> Ports[portIdx].id,
                       port_code |-> Ports[portIdx].code,
                       port_name |-> Ports[portIdx].puerto,
                       month |-> month ]
    /\ i' = 0
    /\ calls' = <<>>
    /\ pc' = "loop"
    /\ UNCHANGED <<portIdx, month, persisted, err, coefficients_map>>
    /\ UNCHANGED coefVars

\* one iteration of the loop of build_tides_json_for_port_month
GrouperStep ==
    /\ pc = "loop"
    /\ LoopCond(i, values)
    /\ IF DayError(i, values, coefficients_map) # "none"
       THEN /\ err' = DayError(i, values, coefficients_map)
            /\ pc' = "failed"
            /\ UNCHANGED <<i, tides_json, calls>>
       ELSE /\ tides_json' = Put(tides_json, values[i + 1].fecha,
                                 tides_day(i, values, coefficients_map))
            /\ i' = i + Increment(i, values)
            /\ calls' = Append(calls, [index |-> i, increment |-> Increment(i, values)])
            /\ UNCHANGED <<pc, err>>
    /\ UNCHANGED <<portIdx, month, values, persisted, coefficients_map>>
    /\ UNCHANGED coefVars

GrouperExit ==
    /\ pc = "loop"
    /\ ~LoopCond(i, values)
    /\ pc' = "write"
    /\ UNCHANGED <<portIdx, month, values, i, tides_json, calls, persisted, err,
                   coefficients_map>>
    /\ UNCHANGED coefVars

\* line 97, the return of handle_port_month (its locals are gone), then the next
\* iteration of the loops of main
WriteJson ==
    /\ pc = "write"
    /\ persisted' = persisted \cup {<<Ports[portIdx].code, month>>}
    /\ IF month < NumMonths
       THEN /\ month' = month + 1
            /\ UNCHANGED portIdx
            /\ pc' = "handle"
       ELSE IF portIdx < Len(Ports)
       THEN /\ month' = 1
            /\ portIdx' = portIdx + 1
            /\ pc' = "handle"
       ELSE /\ pc' = "done"
            /\ UNCHANGED <<portIdx, month>>
    /\ values' = <<>>
    /\ i' = 0
    /\ tides_json' = <<>>
    /\ calls' = <<>>
    /\ UNCHANGED <<err, coefficients_map>>
    /\ UNCHANGED coefVars

CoefIdle ==
    /\ rows = <<>>
    /\ r = 0
    /\ first_semester = FALSE
    /\ registered = <<>>
    /\ pcC = "done"

Init ==
    /\ pc = "handle"
    /\ portIdx = 1
    /\ month = 1
    /\ values = <<>>
    /\ i = 0
    /\ tides_json = <<>>
    /\ calls = <<>>
    /\ persisted = {}
    /\ err = "none"
    /\ coefficients_map \in Tables
    /\ CoefIdle

Next == HandlePortMonth \/ GrouperStep \/ GrouperExit \/ WriteJson

Spec == Init /\ [][Next]_vars

----------------------------------------------------------------------------
(* Inputs of the coefficient extractor *)

\* a row is <<row[0], row[1], ...>>; every cell is the tuple of its characters
T70 == <<"7", "0">>
T7068 == <<"7", "0", " ", "6", "8">>
Cells == {<<>>, <<" ">>, T70, T7068}
DayCells == {<<"1">>, <<"2">>, <<"D", "i", "a">>}

SeqsUpTo(S, n) == UNION {[1..k -> S] : k \in 0..n}

\* k cells holding a pair each, then the cells the repair of lines 62-66 looks at
Bodies ==
    { [k \in 1..h |-> T7068] \o tl : h \in 0..MaxPairs, tl \in SeqsUpTo(Cells, RepairWindow) }

RowTables ==
    { [k \in 1..Len(ds) |-> <<ds[k]>> \o b] : ds \in SeqsUpTo(DayCells, MaxRows), b \in Bodies }

----------------------------------------------------------------------------
(* The coefficient extractor *)

\* str.isnumeric() on the characters of the model
IsNumeric(s) == s # <<>> /\ \A k \in 1..Len(s) : s[k] \in Digits

\* str.split(): the maximal runs of non-blank characters
RECURSIVE SplitWs(_, _)
SplitWs(s, cur) ==
    IF s = <<>> THEN (IF cur = <<>> THEN <<>> ELSE <<cur>>)
    ELSE IF Head(s) = " "
         THEN (IF cur = <<>> THEN <<>> ELSE <<cur>>) \o SplitWs(Tail(s), <<>>)
         ELSE SplitWs(Tail(s), Append(cur, Head(s)))

split(s) == SplitWs(s, <<>>)

\* an element of the list `coefficients`: a string of the cell, or the int of lines 64, 66
Str(s) == [t |-> "str", s |-> s, n |-> 0]
Num(n) == [t |-> "int", s |-> <<>>, n |-> n]

StrTokens(c) == [k \in 1..Len(c) |-> Str(c[k])]

CellTokensPrependOnly(row, idx) ==
    LET coefficients == StrTokens(split(row[idx + 1]))
        n == Len(row)
    IN  IF Len(coefficients) = 0 THEN <<Str(<<"0">>)>>
        ELSE IF idx = n - 2 /\ Len(coefficients) < 2
             THEN IF row[(n - 1) + 1] = <<>> THEN <<Num(0)>> \o coefficients
                  ELSE IF row[(n - RepairWindow) + 1] = <<>> THEN <<Num(0)>> \o coefficients
                  ELSE coefficients
             ELSE coefficients

\* lines 57-68: what cell row[idx] hands to register_coefficients, in order
\* (row[idx] of the source is row[idx + 1] here)
CellTokens(row, idx) ==
    LET coefficients == StrTokens(split(row[idx + 1]))
        n == Len(row)
    IN  IF Len(coefficients) = 0 THEN <<Str(<<"0">>)>>
        ELSE IF idx = n - 2 /\ Len(coefficients) < 2
             THEN IF row[(n - 1) + 1] = <<>> THEN Append(coefficients, Num(0))
                  ELSE IF row[(n - RepairWindow) + 1] = <<>> THEN <<Num(0)>> \o coefficients
                  ELSE coefficients
             ELSE coefficients

RECURSIVE RowTokensFrom(_, _)
RowTokensFrom(row, idx) ==
    IF idx >= Len(row) THEN <<>>
    ELSE CellTokens(row, idx) \o RowTokensFrom(row, idx + 1)

\* line 74: float(coefficient_string) if coefficient_string else 0
\* (the model keeps the number and not the distinction between 0 and 0.0)
Value(tok) ==
    IF tok.t = "str" THEN (IF tok.s # <<>> THEN IntOf(tok.s) ELSE 0)
    ELSE (IF tok.n # 0 THEN tok.n ELSE 0)

Key(year, m, day) == ToString(year) \o "-" \o Pad2(m) \o "-" \o Pad2(day)

\* lines 80-82: the slot counter and the month after one more token
NextSlot(n, m) == IF n + 1 >= 2 THEN [n |-> 0, month |-> m + 1] ELSE [n |-> n + 1, month |-> m]

\* lines 72-83 on the state st = [cm, month, n, log] of the row loop
register_coefficients(st, tok, year, day) ==
    LET key == Key(year, st.month, day)
        value == Value(tok)
        c == st.cm.coefficients
        nx == NextSlot(st.n, st.month)
    IN  [ cm |-> [coefficients |->
                    IF key \notin DOMAIN c THEN c @@ (key :> <<value>>)
                    ELSE [c EXCEPT ![key] = Append(@, value)]],
          month |-> nx.month,
          n |-> nx.n,
          log |-> Append(st.log, [key |-> key, month |-> st.month, day |-> day,
                                  value |-> value]) ]

RECURSIVE RegisterAll(_, _, _, _)
RegisterAll(st, toks, year, day) ==
    IF toks = <<>> THEN st
    ELSE RegisterAll(register_coefficients(st, Head(toks), year, day), Tail(toks), year, day)

ToggleSetsOnly(day, fs) == IF day = 1 THEN TRUE ELSE fs

\* lines 52-53
Toggle(day, fs) == IF day = 1 THEN ~fs ELSE fs

\* line 55
StartMonth(fs) == IF fs THEN 1 ELSE 7

\* lines 49-70: the flag returned, the map and the calls made
handle_coefficients_pdf_row(row, cm, year, fs) ==
    IF IsNumeric(row[1])
    THEN LET day == IntOf(row[1])
             fs2 == Toggle(day, fs)
             st == RegisterAll([cm |-> cm, month |-> StartMonth(fs2), n |-> 0, log |-> <<>>],
                               RowTokensFrom(row, 1), year, day)
         IN  [first_semester |-> fs2, cm |-> st.cm, log |-> st.log]
    ELSE [first_semester |-> fs, cm |-> cm, log |-> <<>>]

----------------------------------------------------------------------------
(* Actions of SpecCoef *)

GrouperIdle ==
    /\ pc = "fetch_coefficients"
    /\ portIdx = 1
    /\ month = 1
    /\ values = <<>>
    /\ i = 0
    /\ tides_json = <<>>
    /\ calls = <<>>
    /\ persisted = {}
    /\ err = "none"

\* lines 40-44
InitCoef ==
    /\ GrouperIdle
    /\ coefficients_map = [coefficients |-> <<>>]
    /\ rows \in RowTables
    /\ r = 0
    /\ first_semester = FALSE
    /\ registered = <<>>
    /\ pcC = "rows"

\* lines 45-46: one iteration of the loop over the rows
HandleRow ==
    /\ pcC = "rows"
    /\ r < Len(rows)
    /\ LET res == handle_coefficients_pdf_row(rows[r + 1], coefficients_map, CurrentYear,
                                              first_semester)
       IN  /\ first_semester' = res.first_semester
           /\ coefficients_map' = res.cm
           /\ registered' = res.log
    /\ r' = r + 1
    /\ UNCHANGED <<rows, pcC>>
    /\ UNCHANGED grouperVars

\* line 47
ReturnCoefficients ==
    /\ pcC = "rows"
    /\ r = Len(rows)
    /\ pcC' = "done"
    /\ UNCHANGED <<rows, r, first_semester, registered, coefficients_map>>
    /\ UNCHANGED grouperVars

NextCoef == HandleRow \/ ReturnCoefficients

SpecCoef == InitCoef /\ [][NextCoef]_vars

----------------------------------------------------------------------------
(* Properties of the grouper, checked under Spec *)

MetaKeys == {"port_id", "port_code", "port_name", "month"}
DayKeys(doc) == (DOMAIN doc) \ MetaKeys

Slots == <<"first_tide", "second_tide", "third_tide", "fourth_tide">>

Fechas(vs) == {vs[k].fecha : k \in 1..Len(vs)}

\* the contract of the feed: ascending, 3 or 4 events on every calendar day
Valid(vs) ==
    /\ DayOrdered(vs)
    /\ \A d \in Fechas(vs) : Cardinality({k \in 1..Len(vs) : vs[k].fecha = d}) \in {3, 4}

\* the hour of an "HH:MM" time, read off its two leading digits
HourOf(hora) == DigitVal(hora[1]) * 10 + DigitVal(hora[2])

LastCall == calls[Len(calls)]
FirstOf(c) == values[c.index + 1]
EndOf(c) == c.index + c.increment

\* the group `day` of the document holds the events of call c, in their order
HoldsEvents(day, c) ==
    /\ DOMAIN day = {Slots[o] : o \in 1..c.increment}
    /\ \A o \in 1..c.increment :
         /\ day[Slots[o]].time = values[c.index + o].hora
         /\ day[Slots[o]].meters = values[c.index + o].altura
         /\ day[Slots[o]].high_tide = (values[c.index + o].tipo = "pleamar")

\* the calls follow one another without gap or overlap, from event 0 to the cursor
Consecutive ==
    /\ \A k \in 1..Len(calls) :
         calls[k].index = IF k = 1 THEN 0 ELSE EndOf(calls[k - 1])
    /\ i = IF calls = <<>> THEN 0 ELSE EndOf(LastCall)

\* C1: on a feed that is ascending and has 3 or 4 events on every calendar day,
\* the groups partition the consumed prefix: each has 3 or 4 events, all of one
\* calendar day, they follow one another in the original order without gap or
\* overlap, and the document holds under that day the events at i, i+1, i+2
\* (and i+3) as first_tide, second_tide, third_tide (and fourth_tide).
C1_GroupsPartitionInOrder ==
    Valid(values) =>
        /\ Consecutive
        /\ \A k \in 1..Len(calls) :
             /\ calls[k].increment \in {3, 4}
             /\ \A o \in 1..calls[k].increment :
                  values[calls[k].index + o].fecha = FirstOf(calls[k]).fecha
             /\ FirstOf(calls[k]).fecha \in DayKeys(tides_json)
             /\ HoldsEvents(tides_json[FirstOf(calls[k]).fecha], calls[k])

C1_Witness ==
    /\ pc = "write"
    /\ Valid(values)
    /\ Len(calls) = 2
    /\ calls[1].increment = 4
    /\ calls[2].increment = 3

\* the event at i+3 exists and is of the calendar day of the event at i
SameDayFourth(c) ==
    /\ c.index + 3 < Len(values)
    /\ values[c.index + 4].fecha = values[c.index + 1].fecha

\* the fourth event is absorbed iff it exists and is of the first event's day;
\* then the cursor advances by 4, otherwise by 3 and the group has no fourth_tide
FourthIff ==
    /\ \A k \in 1..Len(calls) :
         /\ calls[k].increment = 4 <=> SameDayFourth(calls[k])
         /\ calls[k].increment = 3 <=> ~SameDayFourth(calls[k])
    /\ Consecutive
    /\ calls # <<>> =>
         LET day == tides_json[FirstOf(LastCall).fecha]
         IN  /\ ("fourth_tide" \in DOMAIN day) <=> SameDayFourth(LastCall)
             /\ HoldsEvents(day, LastCall)

\* C2 as stated: the fourth event is absorbed iff it exists and is of the day of
\* the event at i; otherwise the cursor advances by 3 and the event at i+3, if
\* any, becomes the first event of the next group.
C2_Original ==
    /\ FourthIff
    /\ pc = "write" =>
         \A k \in 1..Len(calls) :
             (calls[k].increment = 3 /\ calls[k].index + 3 < Len(values))
                 => (k < Len(calls) /\ calls[k + 1].index = calls[k].index + 3)

\* C2 amended: ... otherwise the cursor advances by 3 and the event at i+3, if
\* any, becomes the first event of the next group when at least 3 events remain
\* from i+3, and is left out of every group when fewer remain.
C2_FourthAbsorbedIffSameDay ==
    /\ FourthIff
    /\ pc = "write" =>
         \A k \in 1..Len(calls) :
             (calls[k].increment = 3 /\ calls[k].index + 3 < Len(values))
                 => IF calls[k].index + 3 + 2 < Len(values)
                    THEN k < Len(calls) /\ calls[k + 1].index = calls[k].index + 3
                    ELSE k = Len(calls) /\ i = calls[k].index + 3

C2_Witness ==
    /\ pc = "write"
    /\ Len(calls) = 2
    /\ calls[1].increment = 3
    /\ calls[1].index + 3 < Len(values)
    /\ calls[2].increment = 4
    /\ "fourth_tide" \in DOMAIN tides_json[FirstOf(calls[2]).fecha]

\* entry k (zero-based) of the table for a date, -1 where there is none
TableEntry(fecha, k) ==
    IF fecha \in DOMAIN coefficients_map.coefficients
       /\ k + 1 <= Len(coefficients_map.coefficients[fecha])
    THEN coefficients_map.coefficients[fecha][k + 1]
    ELSE -1

\* C3: the coefficient of every tide placed in a group is the first entry of the
\* table for the event's own date when the hour of its time is less than 12 and
\* the second entry otherwise, event by event.
C3_CoefficientByHour ==
    calls # <<>> =>
        LET day == tides_json[FirstOf(LastCall).fecha]
        IN  \A o \in 1..LastCall.increment :
                LET v == values[LastCall.index + o]
                IN  /\ Slots[o] \in DOMAIN day
                    /\ day[Slots[o]].coefficient =
                         IF HourOf(v.hora) < 12 THEN TableEntry(v.fecha, 0)
                         ELSE TableEntry(v.fecha, 1)

\* a group whose tides carry different coefficients
C3_Witness ==
    /\ calls # <<>>
    /\ LET day == tides_json[FirstOf(LastCall).fecha]
       IN  /\ HourOf(day.first_tide.time) = 11
           /\ HourOf(day.second_tide.time) = 12
           /\ day.first_tide.coefficient = 70
           /\ day.second_tide.coefficient = 68

ScenarioRun ==
    /\ pc = "write"
    /\ values = ScenarioValues
    /\ coefficients_map = ScenarioTable

ScenarioCoefficients ==
    << tides_json[D1].first_tide.coefficient,
       tides_json[D1].second_tide.coefficient,
       tides_json[D1].third_tide.coefficient >>

\* C4 as stated: the five events of the scenario give day 2024-05-01 exactly three
\* tides with coefficients 70, 70, 68 and no entry for 2024-05-02.
C4_Original ==
    ScenarioRun =>
        /\ DayKeys(tides_json) = {D1}
        /\ DOMAIN tides_json[D1] = {"first_tide", "second_tide", "third_tide"}
        /\ ScenarioCoefficients = <<70, 70, 68>>

\* C4 amended: the five events of the scenario give day 2024-05-01 exactly three
\* tides with coefficients 70, 68, 68 (08:10 is before noon, 14:22 and 20:05 are
\* not) and no entry for 2024-05-02.
C4_Scenario ==
    ScenarioRun =>
        /\ DayKeys(tides_json) = {D1}
        /\ DOMAIN tides_json[D1] = {"first_tide", "second_tide", "third_tide"}
        /\ ScenarioCoefficients = <<70, 68, 68>>
        /\ i = 3

C4_Witness == ScenarioRun /\ Len(calls) = 1 /\ Len(values) - i = 2

\* the port-months main has gone through before (p, m)
Before(p, m) ==
    { <<Ports[q].code, n>> : <<q, n>> \in
        { qn \in (1..Len(Ports)) \X (1..NumMonths) : qn[1] < p \/ (qn[1] = p /\ qn[2] < m) } }

HasEntry(v) == v.fecha \in DOMAIN coefficients_map.coefficients

\* C7: an event whose date has no entry in the table is never placed in a group
\* (no default stands in for the coefficient); the port-month fails with the
\* lookup error instead, its document is not persisted, nothing is left for the
\* run to do, and no later port-month has been or will be processed.
C7_MissingEntryIsFatal ==
    /\ \A k \in 1..Len(calls) : \A o \in 1..calls[k].increment :
         HasEntry(values[calls[k].index + o])
    /\ pc = "write" => \A k \in 1..i : HasEntry(values[k])
    /\ (pc = "loop" /\ Len(values) - i >= 3 /\ err = "none") =>
         \A k \in 1..i : HasEntry(values[k])
    /\ (pc = "failed") <=> (err # "none")
    /\ pc = "failed" =>
         /\ <<Ports[portIdx].code, month>> \notin persisted
         /\ persisted = Before(portIdx, month)
         /\ ~ENABLED Next
         /\ DayKeys(tides_json) = {FirstOf(calls[k]).fecha : k \in 1..Len(calls)}
         /\ err = "KeyError" =>
              \E o \in 1..4 : i + o <= Len(values) /\ ~HasEntry(values[i + o])
    /\ pc # "failed" => persisted = Before(portIdx, month) \cup
                           (IF pc = "done" THEN {<<Ports[portIdx].code, month>>} ELSE {})

C7_Witness ==
    /\ pc = "failed"
    /\ err = "KeyError"
    /\ calls # <<>>
    /\ persisted # {}
    /\ month < NumMonths

\* C8: every iteration starts with at least 3 unconsumed events and moves the
\* cursor forward by 3 or 4, never past the end; when the loop exits at most 2
\* events are left, they are in no group of the document, and no error is raised.
C8_LoopTerminatesDroppingTail ==
    /\ i \in 0..Len(values)
    /\ Consecutive
    /\ \A k \in 1..Len(calls) :
         /\ calls[k].increment \in {3, 4}
         /\ calls[k].index + 3 <= Len(values)
         /\ EndOf(calls[k]) > calls[k].index
         /\ EndOf(calls[k]) <= Len(values)
    /\ pc = "write" =>
         /\ Len(values) - i \in 0..2
         /\ err = "none"
         /\ \A k \in 1..Len(calls) : EndOf(calls[k]) <= i
         /\ Cardinality(DayKeys(tides_json)) <= Len(calls)
         /\ \A d \in DayKeys(tides_json) :
              \E k \in 1..Len(calls) :
                  FirstOf(calls[k]).fecha = d /\ HoldsEvents(tides_json[d], calls[k])

C8_Witness ==
    /\ pc = "write"
    /\ Len(calls) = 1
    /\ calls[1].increment = 4
    /\ Len(values) - i = 2

----------------------------------------------------------------------------
(* Properties of the coefficient extractor, checked under SpecCoef *)

NumericRow(row) == IsNumeric(row[1])
LastRow == rows[r]
HandledNumeric == r >= 1 /\ NumericRow(LastRow)

\* the number of rows with day value 1 among the first n rows
Ones(n) == Cardinality({k \in 1..n : NumericRow(rows[k]) /\ IntOf(rows[k][1]) = 1})

RegisteredValues == [k \in 1..Len(registered) |-> registered[k].value]

\* C5 as stated, its first half: once all rows are processed, every date key of
\* the table holds exactly 2 numeric entries.
C5_Original ==
    pcC = "done" =>
        \A key \in DOMAIN coefficients_map.coefficients :
            /\ Len(coefficients_map.coefficients[key]) = 2
            /\ \A k \in 1..Len(coefficients_map.coefficients[key]) :
                 coefficients_map.coefficients[key][k] \in Nat

\* C6: the flag is set exactly when an odd number of rows with day value 1 has
\* been handled (it starts unset, the first such row selects semester 1, and it
\* flips at each such row and at no other), and a numeric row starts at month 1
\* when the flag is set and at month 7 when it is not.
C6_SemesterFlipsAtDayOne ==
    /\ first_semester <=> (Ones(r) % 2 = 1)
    /\ (HandledNumeric /\ registered # <<>>) =>
         registered[1].month = IF Ones(r) % 2 = 1 THEN 1 ELSE 7

\* rows 1, 2, 1: the second 1 is the only flip after the first block of days
C6_Witness ==
    /\ r = 3
    /\ rows[1][1] = <<"1">>
    /\ rows[2][1] = <<"2">>
    /\ rows[3][1] = <<"1">>
    /\ ~first_semester
    /\ registered # <<>>
    /\ registered[1].month = 7

\* the numbers a cell contributes according to C9
ClaimedTokens(row, idx) ==
    LET words == split(row[idx + 1])
        toks == [k \in 1..Len(words) |-> IntOf(words[k])]
        n == Len(row)
        repaired ==
            IF idx = n - 2 /\ Len(toks) < 2
            THEN IF row[n] = <<>> THEN Append(toks, 0)
                 ELSE IF row[n - 2] = <<>> THEN <<0>> \o toks
                 ELSE toks
            ELSE toks
    IN  IF repaired = <<>> THEN <<0>> ELSE repaired

RECURSIVE ClaimedFrom(_, _)
ClaimedFrom(row, idx) ==
    IF idx >= Len(row) THEN <<>>
    ELSE ClaimedTokens(row, idx) \o ClaimedFrom(row, idx + 1)

\* C9: the numbers a numeric row registers are, cell by cell, the cell's own
\* tokens, except that the second-to-last cell, when it has fewer than 2 tokens,
\* gets a 0 appended if the last cell is empty and otherwise a 0 prepended if
\* the cell three positions from the end is empty; a cell that has no token
\* contributes exactly one 0.
C9_RaggedRowRepair ==
    HandledNumeric => RegisteredValues = ClaimedFrom(LastRow, 1)

\* a row whose second-to-last cell holds one token, after an empty cell and
\* before a cell that is not empty: the 0 is prepended
C9_Witness ==
    /\ HandledNumeric
    /\ Len(LastRow) = 4
    /\ LastRow[2] = <<>>
    /\ LastRow[3] = T70
    /\ LastRow[4] = T7068
    /\ RegisteredValues = <<0, 0, 70, 70, 68>>

\* C10 as stated: the k-th token of a numeric row is recorded under month
\* base + floor(k/2), base 1 for a semester-1 row and 7 for a semester-2 row, and
\* the months of a semester-1 row are in 1..6, those of a semester-2 row in 7..12.
C10_Original ==
    HandledNumeric =>
        \A k \in 1..Len(registered) :
            /\ registered[k].month = (IF first_semester THEN 1 ELSE 7) + ((k - 1) \div 2)
            /\ registered[k].month \in (IF first_semester THEN 1..6 ELSE 7..12)
            /\ registered[k].key = Key(CurrentYear, registered[k].month, IntOf(LastRow[1]))

====
